---------------------------- MODULE Spec2Model ----------------------------
(***************************************************************************)
(* audiout: selection of the active audio output device.                   *)
(*                                                                         *)
(* Two programs are modelled:                                              *)
(*   - main.go: the interactive flow (query current, list all, build       *)
(*     choices, pick with fzf, switch), with its signal goroutine;         *)
(*   - the services package: ConfigService.BuildChoices and                *)
(*     Picker.PickDevice (toggleNext / fzfPick).                           *)
(*                                                                         *)
(* Go strings are sequences of byte values, so that comparison, trimming,  *)
(* splitting and the label<TAB>identifier record format are computed as    *)
(* the code computes them.                                                 *)
(***************************************************************************)
EXTENDS Integers, Sequences, FiniteSets

VARIABLES
    cfg,        \* the loaded configuration
    cur,        \* the current device (currentOutput / the current argument)
    devs,       \* the device list (listOutputs / the devices argument)
    choices,    \* the built Choice Set
    pc,         \* where the calling flow stands
    sigpc,      \* where main's signal goroutine stands
    ctxErr,     \* ctx.Err(): "nil", "Canceled" or "DeadlineExceeded"
    run,        \* what cmd.Run left behind: its error, stdout and stderr
    res,        \* the (Choice, bool, error) the selection returned
    calls,      \* the steps of the flow invoked so far, in order
    sigInPick,  \* the signal arrived while cmd.Run was blocking
    toggleMode, \* PickDevice's toggleMode argument
    start,      \* the current identifier of the first PickDevice call
    visited     \* the identifiers the successive toggles selected

vars == <<cfg, cur, devs, choices, pc, sigpc, ctxErr, run, res, calls,
          sigInPick, toggleMode, start, visited>>

-----------------------------------------------------------------------------
(* Bounds *)

\* Longest device list the device controller reports to main.
MaxDevs == 3

\* Longest device list handed to the services package.
MaxPickerDevs == 3

-----------------------------------------------------------------------------
(* Strings *)

\* "\t", the field separator of a record.
TAB == 9

\* "\n", the record terminator.
NL == 10

\* unicode.IsSpace on the ASCII range: \t \n \v \f \r and space.
IsSpace(c) == c \in {9, 10, 11, 12, 13, 32}

\* s[i..], 1-based, empty when i is past the end.
Drop(s, i) == SubSeq(s, i, Len(s))

RECURSIVE TrimLeft(_)
TrimLeft(s) ==
    IF s = <<>> THEN <<>>
    ELSE IF IsSpace(s[1]) THEN TrimLeft(Tail(s))
    ELSE s

RECURSIVE TrimRight(_)
TrimRight(s) ==
    IF s = <<>> THEN <<>>
    ELSE IF IsSpace(s[Len(s)]) THEN TrimRight(SubSeq(s, 1, Len(s) - 1))
    ELSE s

\* strings.TrimSpace
TrimSpace(s) == TrimRight(TrimLeft(s))

\* strings.Index(s, string(c)) as a 1-based position, 0 when c is absent.
RECURSIVE IndexFrom(_, _, _)
IndexFrom(s, c, i) ==
    IF i > Len(s) THEN 0
    ELSE IF s[i] = c THEN i
    ELSE IndexFrom(s, c, i + 1)

IndexOf(s, c) == IndexFrom(s, c, 1)

\* strings.SplitN(line, "\t", 2): at most two parts, cut at the first TAB.
SplitN2(line) ==
    LET i == IndexOf(line, TAB)
    IN  IF i = 0 THEN <<line>>
        ELSE <<SubSeq(line, 1, i - 1), Drop(line, i + 1)>>

\* Go's s < t on strings: bytewise lexicographic order.
RECURSIVE StrLess(_, _)
StrLess(s, t) ==
    IF t = <<>> THEN FALSE
    ELSE IF s = <<>> THEN TRUE
    ELSE IF s[1] # t[1] THEN s[1] < t[1]
    ELSE StrLess(Tail(s), Tail(t))

\* The lines of a text, split at "\n" (a trailing "\n" ends the last line).
RECURSIVE Lines(_)
Lines(s) ==
    IF s = <<>> THEN <<>>
    ELSE LET i == IndexOf(s, NL)
         IN  IF i = 0 THEN <<s>>
             ELSE <<SubSeq(s, 1, i - 1)>> \o Lines(Drop(s, i + 1))

Range(f) == {f[i] : i \in DOMAIN f}

-----------------------------------------------------------------------------
(* Inputs: device identifiers, labels, configurations *)

\* Device identifiers as SwitchAudioSource reports them, trimmed and
\* non-empty (listOutputs): "a", "ab", "b".
Ids == {<<97>>, <<97, 98>>, <<98>>}

\* The identifiers main meets: "a", "b".
MainIds == {<<97>>, <<98>>}

\* Display labels a configuration file can give: "" (falls back to the
\* identifier), "x", and "x\ty" (a label that itself holds a TAB).
Labels == {<<>>, <<120>>, <<120, 9, 121>>}

\* type Config struct { FriendlyNames map[string]string; Ignored []string }
\* FriendlyNames maps some identifiers of I to labels of L; Ignored is read
\* only through membership (isIgnored), so it is a set.
ConfigsOver(I, L) ==
    [FriendlyNames : UNION {[D -> L] : D \in SUBSET I}, Ignored : SUBSET I]

\* The device lists over I of length at most n.
DevLists(I, n) == UNION {[1..k -> I] : k \in 0..n}

\* type Choice struct { RealName, FriendlyName string }
ZeroChoice == [RealName |-> <<>>, FriendlyName |-> <<>>]


\* error values: nil, or a message with the diagnostic text it carries.
NoErr == [msg |-> "nil", diag |-> <<>>]

Err(m) == [msg |-> m, diag |-> <<>>]

\* A (Choice, bool, error) result.
Result(c, ok, err) == [choice |-> c, ok |-> ok, err |-> err]

-----------------------------------------------------------------------------
(* main.go: friendly/ignored helpers and buildChoices *)

\* isIgnored with a loop that never matches.
isIgnoredNever(name, c) == FALSE

isIgnored(name, c) == name \in c.Ignored

friendlyOf(real, c) ==
    IF real \in DOMAIN c.FriendlyNames /\ c.FriendlyNames[real] # <<>>
    THEN c.FriendlyNames[real]
    ELSE real

RECURSIVE buildChoices(_, _)
buildChoices(ds, c) ==
    IF ds = <<>> THEN <<>>
    ELSE IF isIgnored(ds[1], c) THEN buildChoices(Tail(ds), c)
    ELSE <<[RealName |-> ds[1], FriendlyName |-> friendlyOf(ds[1], c)]>>
         \o buildChoices(Tail(ds), c)

\* The text pick writes to fzf's stdin: "FRIENDLY\tREAL\n" per choice.
RECURSIVE fzfInput(_)
fzfInput(cs) ==
    IF cs = <<>> THEN <<>>
    ELSE cs[1].FriendlyName \o <<TAB>> \o cs[1].RealName \o <<NL>>
         \o fzfInput(Tail(cs))

\* pick without its check for an empty line.
pickNoEmptyCheck(runErr, out, errb, ctxErr1, ctxErr2) ==
    IF runErr # "nil"
    THEN IF Len(out) = 0 /\ ctxErr1 = "nil"
         THEN Result(ZeroChoice, FALSE, NoErr)
         ELSE IF ctxErr2 = "DeadlineExceeded"
         THEN Result(ZeroChoice, FALSE, Err("fzf timed out"))
         ELSE Result(ZeroChoice, FALSE,
                     [msg |-> "fzf error", diag |-> TrimSpace(errb)])
    ELSE LET line == TrimSpace(out)
             parts == SplitN2(line)
         IN  IF Len(parts) # 2
             THEN Result(ZeroChoice, FALSE, Err("unexpected fzf line"))
             ELSE Result([RealName |-> parts[2], FriendlyName |-> parts[1]],
                         TRUE, NoErr)

\* What pick returns once cmd.Run has returned runErr ("nil" for success)
\* with stdout out and stderr errb; ctxErr1 and ctxErr2 are what ctx.Err()
\* reads at its first and second use.
pick(runErr, out, errb, ctxErr1, ctxErr2) ==
    IF runErr # "nil"
    THEN IF Len(out) = 0 /\ ctxErr1 = "nil"
         THEN Result(ZeroChoice, FALSE, NoErr)
         ELSE IF ctxErr2 = "DeadlineExceeded"
         THEN Result(ZeroChoice, FALSE, Err("fzf timed out"))
         ELSE Result(ZeroChoice, FALSE,
                     [msg |-> "fzf error", diag |-> TrimSpace(errb)])
    ELSE LET line == TrimSpace(out)
             parts == SplitN2(line)
         IN  IF line = <<>>
             THEN Result(ZeroChoice, FALSE, NoErr)
             ELSE IF Len(parts) # 2
             THEN Result(ZeroChoice, FALSE, Err("unexpected fzf line"))
             ELSE Result([RealName |-> parts[2], FriendlyName |-> parts[1]],
                         TRUE, NoErr)

-----------------------------------------------------------------------------
(* The collaborators *)

\* Nothing run yet.
NoRun == [err |-> "none", out |-> <<>>, errb |-> <<>>]

\* No selection returned yet.
Pending == Result(ZeroChoice, FALSE, Err("pending"))

\* Diagnostic text on stderr: "e\n".
Diag == <<101, 10>>

\* A line that is no record of the input: "g\n".
Stray == <<103, 10>>

\* How an fzf process given `input` can end by itself: it exits with status
\* zero or not, having printed nothing, one line of its input, or a line of
\* its own, with or without a diagnostic on stderr.
FzfOutcomes(input) ==
    [err  : {"nil", "exit status"},
     out  : {<<>>, Stray} \cup {l \o <<NL>> : l \in Range(Lines(input))},
     errb : {<<>>, Diag}]

\* cmd.Run returns without a process: the context was done at Start.
NotStarted == [err |-> "context canceled", out |-> <<>>, errb |-> <<>>]

\* exec.CommandContext kills the process once the context is done.
Killed == [err |-> "signal: killed", out |-> <<>>, errb |-> <<>>]

-----------------------------------------------------------------------------
(* main.go: main *)

MainPicker == <<toggleMode, start, visited>>

\* afterPick without the check of ok.
afterPickNoOk(r) ==
    IF r.err # NoErr THEN "exit1"
    ELSE "switch"

\* The branch main takes on pick's result.
afterPick(r) ==
    IF r.err # NoErr THEN "exit1"
    ELSE IF ~r.ok THEN "nosel"
    ELSE "switch"

\* After loadConfig: every configuration file, the missing and the
\* unparsable one included (both give the empty configuration).
InitMain ==
    /\ cfg \in ConfigsOver(MainIds, Labels)
    /\ cur = <<>>
    /\ devs = <<>>
    /\ choices = <<>>
    /\ pc = "query"
    /\ sigpc = "waiting"
    /\ ctxErr = "nil"
    /\ run = NoRun
    /\ res = Pending
    /\ calls = <<>>
    /\ sigInPick = FALSE
    /\ toggleMode = FALSE
    /\ start = <<>>
    /\ visited = <<>>

\* cur, err := currentOutput(ctx, log). runCmd succeeds only when the
\* context is not done as the command starts, and may fail whenever.
QueryCurrent ==
    /\ pc = "query"
    /\ calls' = Append(calls, "query")
    /\ \/ /\ ctxErr = "nil"
          /\ cur' \in MainIds
          /\ pc' = "list"
       \/ /\ pc' = "exit1"
          /\ UNCHANGED cur
    /\ UNCHANGED <<cfg, devs, choices, sigpc, ctxErr, run, res, sigInPick,
                   MainPicker>>

\* devs, err := listOutputs(ctx, log)
ListAll ==
    /\ pc = "list"
    /\ calls' = Append(calls, "list")
    /\ \/ /\ ctxErr = "nil"
          /\ devs' \in DevLists(MainIds, MaxDevs)
          /\ pc' = "build"
       \/ /\ pc' = "exit1"
          /\ UNCHANGED devs
    /\ UNCHANGED <<cfg, cur, choices, sigpc, ctxErr, run, res, sigInPick,
                   MainPicker>>

\* choices := buildChoices(devs, cfg, log); no choices is fatal.
Build ==
    /\ pc = "build"
    /\ calls' = Append(calls, "build")
    /\ choices' = buildChoices(devs, cfg)
    /\ pc' = IF Len(choices') = 0 THEN "exit1" ELSE "select"
    /\ UNCHANGED <<cfg, cur, devs, sigpc, ctxErr, run, res, sigInPick,
                   MainPicker>>

\* pick: cmd.Run starts fzf and blocks, unless the context is done already.
PickStart ==
    /\ pc = "select"
    /\ calls' = Append(calls, "select")
    /\ IF ctxErr = "nil"
       THEN pc' = "fzfRunning" /\ UNCHANGED run
       ELSE pc' = "runReturned" /\ run' = NotStarted
    /\ UNCHANGED <<cfg, cur, devs, choices, sigpc, ctxErr, res, sigInPick,
                   MainPicker>>

\* fzf ends by itself (the user accepts, aborts, or fzf fails).
FzfExit ==
    /\ pc = "fzfRunning"
    /\ run' \in FzfOutcomes(fzfInput(choices))
    /\ pc' = "runReturned"
    /\ UNCHANGED <<cfg, cur, devs, choices, sigpc, ctxErr, res, calls,
                   sigInPick, MainPicker>>

\* The context is done while fzf runs: the process is killed.
FzfKilled ==
    /\ pc = "fzfRunning"
    /\ ctxErr # "nil"
    /\ run' = Killed
    /\ pc' = "runReturned"
    /\ UNCHANGED <<cfg, cur, devs, choices, sigpc, ctxErr, res, calls,
                   sigInPick, MainPicker>>

\* cmd.Run has returned: pick reads ctx.Err() and returns. main's context is
\* only ever cancelled, so the second read cannot see more than the first
\* in a way that changes the result.
PickReturn ==
    /\ pc = "runReturned"
    /\ res' = pick(run.err, run.out, run.errb, ctxErr, ctxErr)
    /\ pc' = "picked"
    /\ UNCHANGED <<cfg, cur, devs, choices, sigpc, ctxErr, run, calls,
                   sigInPick, MainPicker>>

\* main handles pick's result; pick's buffers are gone.
AfterPick ==
    /\ pc = "picked"
    /\ pc' = afterPick(res)
    /\ run' = NoRun
    /\ UNCHANGED <<cfg, cur, devs, choices, sigpc, ctxErr, res, calls,
                   sigInPick, MainPicker>>

\* switchOutput(ctx, choice.RealName, log)
SwitchOutput ==
    /\ pc = "switch"
    /\ calls' = Append(calls, "set")
    /\ \/ /\ ctxErr = "nil"
          /\ cur' = res.choice.RealName
          /\ pc' = "done"
       \/ /\ pc' = "exit1"
          /\ UNCHANGED cur
    /\ UNCHANGED <<cfg, devs, choices, sigpc, ctxErr, run, res, sigInPick,
                   MainPicker>>

Exited == pc \in {"exit1", "nosel", "done"}

\* os.Interrupt or SIGTERM is delivered: <-sig returns in the goroutine.
Signal ==
    /\ ~Exited
    /\ sigpc = "waiting"
    /\ sigpc' = "received"
    /\ sigInPick' = (pc = "fzfRunning")
    /\ UNCHANGED <<cfg, cur, devs, choices, pc, ctxErr, run, res, calls,
                   MainPicker>>

\* The goroutine logs and calls cancel().
Cancel ==
    /\ ~Exited
    /\ sigpc = "received"
    /\ sigpc' = "cancelled"
    /\ ctxErr' = "Canceled"
    /\ UNCHANGED <<cfg, cur, devs, choices, pc, run, res, calls, sigInPick,
                   MainPicker>>

Next ==
    \/ QueryCurrent
    \/ ListAll
    \/ Build
    \/ PickStart
    \/ FzfExit
    \/ FzfKilled
    \/ PickReturn
    \/ AfterPick
    \/ SwitchOutput
    \/ Signal
    \/ Cancel

Spec == InitMain /\ [][Next]_vars

-----------------------------------------------------------------------------
(* services: ConfigService *)

IsIgnored(deviceName, c) == deviceName \in c.Ignored

FriendlyName(deviceName, c) ==
    IF deviceName \in DOMAIN c.FriendlyNames
       /\ c.FriendlyNames[deviceName] # <<>>
    THEN c.FriendlyNames[deviceName]
    ELSE deviceName

RECURSIVE BuildChoices(_, _)
BuildChoices(devices, c) ==
    IF devices = <<>> THEN <<>>
    ELSE IF IsIgnored(devices[1], c) THEN BuildChoices(Tail(devices), c)
    ELSE <<[RealName |-> devices[1],
            FriendlyName |-> FriendlyName(devices[1], c)]>>
         \o BuildChoices(Tail(devices), c)

-----------------------------------------------------------------------------
(* services: Picker *)

\* One choice put into an ascending sequence, before the first element it
\* is less than by RealName.
RECURSIVE InsertByRealName(_, _)
InsertByRealName(c, sorted) ==
    IF sorted = <<>> THEN <<c>>
    ELSE IF StrLess(c.RealName, sorted[1].RealName) THEN <<c>> \o sorted
    ELSE <<sorted[1]>> \o InsertByRealName(c, Tail(sorted))

\* sortedChoices without the sort: the copy alone.
unsortedChoices(cs) == cs

\* sort.Slice(sortedChoices, less by RealName) on a copy of choices.
\* sort.Slice is not stable; choices of one RealName built by BuildChoices
\* are equal, so the sorted sequence is the same whatever their order.
RECURSIVE sortedChoices(_)
sortedChoices(cs) ==
    IF cs = <<>> THEN <<>>
    ELSE InsertByRealName(cs[Len(cs)], sortedChoices(SubSeq(cs, 1, Len(cs) - 1)))

\* The 0-based index of the first choice named current, from i on; -1 when
\* there is none.
RECURSIVE currentIdxFrom(_, _, _)
currentIdxFrom(sorted, current, i) ==
    IF i >= Len(sorted) THEN -1
    ELSE IF sorted[i + 1].RealName = current THEN i
    ELSE currentIdxFrom(sorted, current, i + 1)

currentIdx(sorted, current) == currentIdxFrom(sorted, current, 0)

\* nextIdx that stops at the last choice instead of wrapping.
nextIdxNoWrap(idx, n) ==
    IF idx = -1 THEN 0
    ELSE IF idx + 1 >= n THEN idx
    ELSE idx + 1

\* The 0-based index toggleNext selects among n sorted choices.
nextIdx(idx, n) ==
    IF idx = -1 THEN 0
    ELSE (idx + 1) % n

toggleNext(cs, current) ==
    IF Len(cs) = 0
    THEN Result(ZeroChoice, FALSE, Err("no choices available"))
    ELSE LET sorted == sortedChoices(cs)
             idx == nextIdx(currentIdx(sorted, current), Len(sorted))
         IN  Result(sorted[idx + 1], TRUE, NoErr)

\* What fzfPick returns once cmd.Run has returned runErr ("nil" for
\* success) with stdout out and stderr errb; ctxErr1 and ctxErr2 are what
\* ctx.Err() reads at its first and second use.
fzfPick(runErr, out, errb, ctxErr1, ctxErr2) ==
    IF runErr # "nil"
    THEN IF Len(out) = 0 /\ ctxErr1 = "nil"
         THEN Result(ZeroChoice, FALSE, NoErr)
         ELSE IF ctxErr2 = "DeadlineExceeded"
         THEN Result(ZeroChoice, FALSE, Err("fzf timed out"))
         ELSE Result(ZeroChoice, FALSE,
                     [msg |-> "fzf error", diag |-> TrimSpace(errb)])
    ELSE LET line == TrimSpace(out)
             parts == SplitN2(line)
         IN  IF line = <<>>
             THEN Result(ZeroChoice, FALSE, NoErr)
             ELSE IF Len(parts) # 2
             THEN Result(ZeroChoice, FALSE, Err("unexpected fzf line"))
             ELSE Result([RealName |-> parts[2], FriendlyName |-> parts[1]],
                         TRUE, NoErr)

\* PickDevice; r is what cmd.Run leaves behind in interactive mode, and c1,
\* c2 what ctx.Err() then reads.
PickDevice(cs, current, toggle, r, c1, c2) ==
    IF toggle THEN toggleNext(cs, current)
    ELSE fzfPick(r.err, r.out, r.errb, c1, c2)

-----------------------------------------------------------------------------
(* A caller of the services package *)

\* What the two reads of ctx.Err() in fzfPick can see of the caller's
\* context: a context stays done once it is done.
CtxReads ==
    {<<"nil", "nil">>, <<"nil", "Canceled">>, <<"nil", "DeadlineExceeded">>,
     <<"Canceled", "Canceled">>, <<"DeadlineExceeded", "DeadlineExceeded">>}

\* How cmd.Run can end under a context whose second read gives c.
FzfRuns(input, c) ==
    FzfOutcomes(input) \cup (IF c = "nil" THEN {} ELSE {Killed, NotStarted})

MainOnly == <<sigpc, calls, sigInPick>>

\* A configuration, a device list and a current device, before
\* BuildChoices is called.
InitPicker ==
    /\ cfg \in ConfigsOver(Ids, {<<120>>})
    /\ devs \in DevLists(Ids, MaxPickerDevs)
    /\ cur \in Ids
    /\ start = cur
    /\ choices = <<>>
    /\ pc = "pbuild"
    /\ sigpc = "waiting"
    /\ ctxErr = "nil"
    /\ run = NoRun
    /\ res = Pending
    /\ calls = <<>>
    /\ sigInPick = FALSE
    /\ toggleMode = FALSE
    /\ visited = <<>>

\* choices := configService.BuildChoices(devices)
CallBuildChoices ==
    /\ pc = "pbuild"
    /\ choices' = BuildChoices(devs, cfg)
    /\ pc' = "ppick"
    /\ UNCHANGED <<cfg, cur, devs, ctxErr, run, res, toggleMode, start,
                   visited, MainOnly>>

\* picker.PickDevice(ctx, choices, current, true)
PickToggle ==
    /\ pc = "ppick"
    /\ toggleMode' = TRUE
    /\ res' = PickDevice(choices, cur, TRUE, NoRun, "nil", "nil")
    /\ visited' = IF res'.ok THEN Append(visited, res'.choice.RealName)
                  ELSE visited
    /\ pc' = "ppicked"
    /\ UNCHANGED <<cfg, cur, devs, choices, ctxErr, run, start, MainOnly>>

\* picker.PickDevice(ctx, choices, current, false)
PickInteractive ==
    /\ pc = "ppick"
    /\ visited = <<>>
    /\ \E c \in CtxReads :
        \E r \in FzfRuns(fzfInput(choices), c[2]) :
            /\ run' = r
            /\ ctxErr' = c[2]
            /\ res' = PickDevice(choices, cur, FALSE, r, c[1], c[2])
    /\ pc' = "ppicked"
    /\ UNCHANGED <<cfg, cur, devs, choices, toggleMode, start, visited,
                   MainOnly>>

\* The selected device is set and is the current device of the next
\* toggle, until the choices have been gone through once.
ApplyToggle ==
    /\ pc = "ppicked"
    /\ toggleMode
    /\ res.ok
    /\ Len(visited) < Len(choices)
    /\ cur' = res.choice.RealName
    /\ pc' = "ppick"
    /\ UNCHANGED <<cfg, devs, choices, ctxErr, run, res, toggleMode, start,
                   visited, MainOnly>>

NextPicker ==
    \/ CallBuildChoices
    \/ PickToggle
    \/ PickInteractive
    \/ ApplyToggle

SpecPicker == InitPicker /\ [][NextPicker]_vars

-----------------------------------------------------------------------------
(* Properties *)

\* The identifiers of a Choice Set, in its order.
RealNames(cs) == [i \in 1..Len(cs) |-> cs[i].RealName]

\* How often x occurs in a sequence.
Count(x, seq) == Cardinality({i \in DOMAIN seq : seq[i] = x})

\* The no-selection outcome (zero Choice, false, nil).
NoSelection == Result(ZeroChoice, FALSE, NoErr)

\* main has built the Choice Set.
Built == Len(calls) >= 3

NotIgnored(d) == d \notin cfg.Ignored

\* C1, as stated: the Choice Set main builds holds no ignored identifier,
\* and every non-ignored identifier of the device list exactly once, in the
\* order of the list.
C1_ExactlyOnce ==
    Built =>
        /\ \A i \in DOMAIN choices : choices[i].RealName \notin cfg.Ignored
        /\ \A d \in Range(devs) \ cfg.Ignored :
               Count(d, RealNames(choices)) = 1
        /\ \A i, j \in DOMAIN choices :
               i < j => \E k, l \in DOMAIN devs :
                           /\ k < l
                           /\ devs[k] = choices[i].RealName
                           /\ devs[l] = choices[j].RealName

\* C1, amended: the Choice Set main builds holds no ignored identifier, and
\* every non-ignored identifier of the device list as often as the list
\* holds it, in the order of the list: its identifiers are the device list
\* with the ignored entries left out.
C1_NoIgnoredSameOrder ==
    Built =>
        /\ \A i \in DOMAIN choices : choices[i].RealName \notin cfg.Ignored
        /\ \A d \in Range(devs) \ cfg.Ignored :
               Count(d, RealNames(choices)) = Count(d, devs)
        /\ RealNames(choices) = SelectSeq(devs, NotIgnored)

\* A list with an ignored device and a non-ignored device listed twice has
\* been built into the Choice Set.
C1_Witness ==
    /\ Built
    /\ \E i \in DOMAIN devs : devs[i] \in cfg.Ignored
    /\ \E i, j \in DOMAIN devs :
           i # j /\ devs[i] = devs[j] /\ devs[i] \notin cfg.Ignored

\* The identifiers of the Choice Set are pairwise different.
DistinctIds(cs) ==
    \A i, j \in DOMAIN cs : i # j => cs[i].RealName # cs[j].RealName

\* n toggles have been applied to a Choice Set of size n, the first from a
\* current identifier of the set, each next one from the identifier the
\* previous one selected.
CycleDone ==
    /\ pc = "ppicked"
    /\ toggleMode
    /\ Len(choices) > 0
    /\ Len(visited) = Len(choices)
    /\ start \in Range(RealNames(choices))

\* The toggles visited every identifier exactly once and came back to the
\* start with the last one.
FullCycle ==
    /\ \A d \in Range(RealNames(choices)) : Count(d, visited) = 1
    /\ Range(visited) = Range(RealNames(choices))
    /\ visited[Len(visited)] = start

\* C2, as stated: for any non-empty Choice Set of size n and any start in
\* it, n toggles visit each identifier exactly once and select the start
\* again with the n-th.
C2_AnyChoiceSet == CycleDone => FullCycle

\* C2, amended: for any non-empty Choice Set of size n whose identifiers are
\* pairwise different and any start in it, n toggles visit each identifier
\* exactly once and select the start again with the n-th.
C2_DistinctChoiceSet == (CycleDone /\ DistinctIds(choices)) => FullCycle

\* Three different devices have been toggled through.
C2_Witness == CycleDone /\ DistinctIds(choices) /\ Len(choices) = 3

\* C3: toggleNext on a non-empty Choice Set with a current identifier that
\* is not in it selects a choice of the set whose identifier no other
\* identifier of the set is less than, and reports selected = true.
C3_FallbackIsSmallest ==
    (/\ pc = "ppicked"
     /\ toggleMode
     /\ Len(choices) > 0
     /\ cur \notin Range(RealNames(choices)))
    => /\ res.ok
       /\ res.err = NoErr
       /\ res.choice \in Range(choices)
       /\ \A c \in Range(choices) :
              ~StrLess(c.RealName, res.choice.RealName)

\* toggleNext fell back on a Choice Set whose first choice is not the
\* smallest.
C3_Witness ==
    /\ pc = "ppicked"
    /\ toggleMode
    /\ Len(choices) > 1
    /\ cur \notin Range(RealNames(choices))
    /\ \E c \in Range(choices) : StrLess(c.RealName, choices[1].RealName)

\* C4: PickDevice with an empty choices sequence returns an error, in
\* toggle mode and in interactive mode.
C4_EmptyChoicesFail ==
    (pc = "ppicked" /\ Len(choices) = 0) => res.err # NoErr

\* C5: when fzf printed nothing and the context is not done, pick returns
\* (zero Choice, false) without an error, whatever fzf's exit status.
C5_EmptyOutputNoSelection ==
    (pc = "picked" /\ run.out = <<>> /\ ctxErr = "nil") => res = NoSelection

\* fzf exited with a non-zero status and printed nothing, the context not
\* done.
C5_Witness ==
    /\ pc = "picked"
    /\ run.out = <<>>
    /\ ctxErr = "nil"
    /\ run.err = "exit status"
    /\ res = NoSelection

\* C6: an fzf run that ends with a non-zero exit and diagnostic output on
\* stderr makes pick return an error carrying the diagnostic text.
C6_DiagnosticIsError ==
    (pc = "picked" /\ run.err = "exit status" /\ run.errb # <<>>)
    => /\ res.err # NoErr
       /\ res.err.diag = TrimSpace(run.errb)

\* C7: a run whose signal arrived while fzf was blocking never has pick
\* return the no-selection outcome, and never leaves main by its "no
\* selection; exiting" path.
C7_CancelNeverNoSelection ==
    sigInPick =>
        /\ pc = "picked" => res # NoSelection
        /\ pc # "nosel"

\* The record pick writes for a choice, as fzf prints it back.
RecordLine(c) == c.FriendlyName \o <<TAB>> \o c.RealName \o <<NL>>

\* C8: when fzf exits successfully having printed the record pick wrote for
\* a choice of the set, pick returns that choice, selected, without error.
C8_RoundTrip ==
    \A i \in DOMAIN choices :
        (pc = "picked" /\ run.err = "nil" /\ run.out = RecordLine(choices[i]))
        => /\ res.ok
           /\ res.err = NoErr
           /\ res.choice.RealName = choices[i].RealName
           /\ res.choice.FriendlyName = choices[i].FriendlyName

\* C9: when fzf exits successfully with non-empty output that holds no TAB
\* or more than one, pick returns the malformed-selection error and not
\* selected = true.
C9_MalformedIsError ==
    (/\ pc = "picked"
     /\ run.err = "nil"
     /\ TrimSpace(run.out) # <<>>
     /\ Count(TAB, run.out) # 1)
    => /\ ~res.ok
       /\ res.err = Err("unexpected fzf line")

\* The steps of main's flow, in order.
Flow == <<"query", "list", "build", "select", "set">>

IsPrefix(s, t) == Len(s) <= Len(t) /\ SubSeq(t, 1, Len(s)) = s

\* C10: main's steps occur in the order query, list, build, select, set;
\* switchOutput is invoked at most once, and only after pick returned
\* selected = true without error on a non-empty Choice Set; a run that
\* ended on the no-selection path never invoked it.
C10_FlowOrder ==
    /\ IsPrefix(calls, Flow)
    /\ Count("set", calls) <= 1
    /\ "set" \in Range(calls) =>
           /\ res.ok
           /\ res.err = NoErr
           /\ Len(choices) > 0
    /\ pc = "nosel" => "set" \notin Range(calls)

\* main switched the output and ended.
C10_Witness == pc = "done" /\ calls = Flow

=============================================================================
